---- MODULE Spec2Model ----
(***************************************************************************)
(* Zeus ERP credentials resource: ZeusController (request handlers) over   *)
(* ZeusService (persistence on the credentialsZeus table), and the web     *)
(* client's SettingsPage, which holds the Zeus form and talks to           *)
(* /api/settings.  The two sides share no state: Spec and SpecValidation   *)
(* run the server, SpecClient and SpecForm run the page.                   *)
(*                                                                         *)
(* A JavaScript string is modelled as the sequence of its characters, a    *)
(* JavaScript value as a record tagged with its type.  The table is a bag  *)
(* of rows, so that a duplicated row would be visible.                     *)
(***************************************************************************)
EXTENDS Integers, Sequences, FiniteSets, Bags, TLC

----------------------------------------------------------------------------
(* JavaScript values *)

Str(s) == [t |-> "string", s |-> s]
Num(n) == [t |-> "number", n |-> n]
NaN == [t |-> "number", nan |-> TRUE]
Undef == [t |-> "undefined"]
Null == [t |-> "null"]

IsStr(v) == v.t = "string"
IsNum(v) == v.t = "number" /\ "n" \in DOMAIN v
IsNaN(v) == v.t = "number" /\ "nan" \in DOMAIN v

\* JavaScript truthiness of a value (the operand of !, && and ||)
Truthy(v) ==
  CASE v.t = "string" -> Len(v.s) > 0
    [] v.t = "number" -> IsNum(v) /\ v.n # 0
    [] OTHER -> FALSE

----------------------------------------------------------------------------
(* Bounds *)

\* requests that may be awaiting the persistence layer at the same time
MaxInFlight == 2

----------------------------------------------------------------------------
(* parseInt(val, 10) *)

Digits == <<"0", "1", "2", "3", "4", "5", "6", "7", "8", "9">>
IsDigit(c) == \E i \in 1..10 : Digits[i] = c
DigitVal(c) == (CHOOSE i \in 1..10 : Digits[i] = c) - 1
IsSpace(c) == c = " "

RECURSIVE SkipSpaces(_)
SkipSpaces(s) ==
  IF s # <<>> /\ IsSpace(Head(s)) THEN SkipSpaces(Tail(s)) ELSE s

\* the value of the longest prefix of digits of s, read after acc; count is
\* the number of digits read
RECURSIVE ReadDigits(_, _, _)
ReadDigits(s, acc, count) ==
  IF s # <<>> /\ IsDigit(Head(s))
    THEN ReadDigits(Tail(s), acc * 10 + DigitVal(Head(s)), count + 1)
    ELSE [value |-> acc, count |-> count]

parseInt(val) ==
  LET s == SkipSpaces(val)
      neg == s # <<>> /\ Head(s) = "-"
      signed == s # <<>> /\ Head(s) \in {"-", "+"}
      body == IF signed THEN Tail(s) ELSE s
      r == ReadDigits(body, 0, 0)
  IN  IF r.count = 0 THEN NaN
      ELSE Num(IF neg THEN 0 - r.value ELSE r.value)

----------------------------------------------------------------------------
(* credentialsSchema: the outcome of parsing one value is valid (with the  *)
(* parsed value), dirty or aborted (with the issues found), or threw (an   *)
(* exception raised inside a transform leaves safeParse uncaught).         *)

Valid(v) == [status |-> "valid", value |-> v]
Dirty(path, message) ==
  [status |-> "dirty", issues |-> <<[path |-> path, message |-> message]>>]
Aborted(path, message) ==
  [status |-> "aborted", issues |-> <<[path |-> path, message |-> message]>>]
Threw == [status |-> "threw"]

InvalidType(path, v) ==
  Aborted(path, IF v = Undef THEN "Required" ELSE "Invalid type")

\* z.string().min(1, message)
StringMin1(v, path, message) ==
  IF ~IsStr(v) THEN InvalidType(path, v)
  ELSE IF Len(v.s) < 1 THEN Dirty(path, message)
  ELSE Valid(v.s)

\* z.number().int().positive('Porta deve ser um número positivo')
PortNumber(v) ==
  IF ~IsNum(v) THEN InvalidType("port", v)
  ELSE IF v.n <= 0 THEN Dirty("port", "Porta deve ser um numero positivo")
  ELSE Valid(v.n)

\* the function given to transform: parseInt, then throw unless positive
PortTransform(val) ==
  LET num == parseInt(val)
  IN  IF IsNaN(num) \/ num.n <= 0 THEN Threw ELSE Valid(num.n)

\* z.string().min(1, 'Porta é obrigatória').transform(...): the transform
\* runs only on a valid string
PortString(v) ==
  LET base == StringMin1(v, "port", "Porta e obrigatoria")
  IN  IF base.status # "valid" THEN base ELSE PortTransform(base.value)

\* z.union([number, string]): the options are tried in order, the first
\* valid one wins; otherwise the first dirty one; otherwise invalid_union
PortUnion(v) ==
  LET first == PortNumber(v)
      second == PortString(v)
  IN  IF first.status = "valid" THEN first
      ELSE IF second.status \in {"valid", "threw"} THEN second
      ELSE IF first.status = "dirty" THEN first
      ELSE IF second.status = "dirty" THEN second
      ELSE Aborted("port", "Invalid input")

\* z.string().optional().or(z.literal(''))
PasswordSchema(v) ==
  IF v = Undef \/ IsStr(v) THEN Valid(v)
  ELSE Aborted("password", "Invalid input")

SchemaKeys == <<"host", "port", "databaseName", "username", "password">>

ParseKey(body, key) ==
  CASE key = "host" -> StringMin1(body.host, "host", "Host e obrigatorio")
    [] key = "port" -> PortUnion(body.port)
    [] key = "databaseName" ->
         StringMin1(body.databaseName, "databaseName", "Nome do banco e obrigatorio")
    [] key = "username" ->
         StringMin1(body.username, "username", "Usuario e obrigatorio")
    [] key = "password" -> PasswordSchema(body.password)

RECURSIVE CollectIssues(_, _)
CollectIssues(body, keys) ==
  IF keys = <<>> THEN <<>>
  ELSE LET r == ParseKey(body, Head(keys))
       IN  (IF r.status = "valid" THEN <<>> ELSE r.issues)
             \o CollectIssues(body, Tail(keys))

\* credentialsSchema.safeParse(req.body): every key is parsed, in the order
\* of the schema, whatever the outcome of the keys before it
safeParse(body) ==
  IF \E i \in 1..Len(SchemaKeys) : ParseKey(body, SchemaKeys[i]).status = "threw"
    THEN [threw |-> TRUE]
  ELSE IF \A i \in 1..Len(SchemaKeys) : ParseKey(body, SchemaKeys[i]).status = "valid"
    THEN [threw |-> FALSE, success |-> TRUE,
          data |-> [k \in {SchemaKeys[i] : i \in 1..Len(SchemaKeys)} |->
                      ParseKey(body, k).value]]
  ELSE [threw |-> FALSE, success |-> FALSE,
        errors |-> CollectIssues(body, SchemaKeys)]

----------------------------------------------------------------------------
(* ZeusService over the credentialsZeus table *)

Row(tbl) == BagToSet(tbl)
RowsOf(tbl, tenantId) == {r \in Row(tbl) : r.tenantId = tenantId}

\* prisma.credentialsZeus.findUnique({ where: { tenantId } })
findUnique(tbl, tenantId) ==
  IF RowsOf(tbl, tenantId) = {} THEN Null
  ELSE CHOOSE r \in RowsOf(tbl, tenantId) : TRUE

\* the row with hasPassword added and the password left in it
Redact_KeepsPassword(credentials) ==
  [hasPassword |-> Truthy(Str(credentials.password)) /\ Len(credentials.password) > 0]
    @@ credentials

\* const { password, ...rest } = credentials;
\* return { ...rest, hasPassword: !!password && password.length > 0 }
Redact(credentials) ==
  [hasPassword |-> Truthy(Str(credentials.password)) /\ Len(credentials.password) > 0]
    @@ [k \in DOMAIN credentials \ {"password"} |-> credentials[k]]

getCredentials(tbl, tenantId) ==
  LET credentials == findUnique(tbl, tenantId)
  IN  IF credentials # Null THEN Redact(credentials) ELSE Null

\* the password is part of the object whenever the request has one, the
\* empty string included
upsertData_EmptyOverwrites(tenantId, data) ==
  LET fields == [host |-> data.host, port |-> data.port,
                 databaseName |-> data.databaseName,
                 username |-> data.username, tenantId |-> tenantId]
  IN  IF IsStr(data.password)
        THEN [password |-> data.password.s] @@ fields
        ELSE fields

\* the password is part of the object whether or not one is given
upsertData_AlwaysPassword(tenantId, data) ==
  [host |-> data.host, port |-> data.port, databaseName |-> data.databaseName,
   username |-> data.username, tenantId |-> tenantId,
   password |-> IF IsStr(data.password) THEN data.password.s ELSE <<>>]

\* the object built before the call: the password is part of it only when a
\* non-empty one is given
upsertData(tenantId, data) ==
  LET fields == [host |-> data.host, port |-> data.port,
                 databaseName |-> data.databaseName,
                 username |-> data.username, tenantId |-> tenantId]
  IN  IF Truthy(data.password) /\ Len(data.password.s) > 0
        THEN [password |-> data.password.s] @@ fields
        ELSE fields

\* the row is created with the empty password whatever the request gives
createData_EmptyPassword(tenantId, data) ==
  [host |-> data.host, port |-> data.port, databaseName |-> data.databaseName,
   username |-> data.username, tenantId |-> tenantId, password |-> <<>>]

\* create: { ...upsertData, password: data.password || '' }
createData(tenantId, data) ==
  [password |-> IF Truthy(data.password) THEN data.password.s ELSE <<>>]
    @@ upsertData(tenantId, data)

\* the row of a tenant that has one is left as it was
prismaUpsert_KeepsOld(tbl, tenantId, update, create) ==
  LET old == findUnique(tbl, tenantId)
  IN  [table |-> IF old = Null THEN tbl (+) SetToBag({create}) ELSE tbl,
       result |-> IF old = Null THEN create ELSE old]

\* a create in place of the upsert: the row is added whether or not the
\* tenant has one
prismaUpsert_AlwaysCreates(tbl, tenantId, update, create) ==
  [table |-> tbl (+) SetToBag({create}), result |-> create]

\* prisma.credentialsZeus.upsert({ where: { tenantId }, update, create }):
\* the row of the tenant takes the fields of update, and a tenant without a
\* row gets the row create
prismaUpsert(tbl, tenantId, update, create) ==
  LET old == findUnique(tbl, tenantId)
      new == IF old = Null THEN create ELSE update @@ old
  IN  [table |-> IF old = Null THEN tbl (+) SetToBag({new})
                 ELSE (tbl (-) SetToBag({old})) (+) SetToBag({new}),
       result |-> new]

upsertCredentials(tbl, tenantId, data) ==
  prismaUpsert(tbl, tenantId, upsertData(tenantId, data), createData(tenantId, data))

\* deleteMany without its where: no row is left
deleteCredentials_AllTenants(tbl, tenantId) == EmptyBag

\* the filter inverted: the rows of the tenant are the ones kept out
deleteCredentials_OtherTenants(tbl, tenantId) ==
  [r \in {x \in Row(tbl) : x.tenantId = tenantId} |-> tbl[r]]

\* prisma.credentialsZeus.deleteMany({ where: { tenantId } })
deleteCredentials(tbl, tenantId) ==
  [r \in {x \in Row(tbl) : x.tenantId # tenantId} |-> tbl[r]]

----------------------------------------------------------------------------
(* Requests *)

TenantA == <<"A">>
TenantB == <<"B">>

Tenants == {TenantA, TenantB}

\* req.tenantId as the authentication middleware leaves it
TenantIds == {Undef, Str(<<>>), Str(TenantA), Str(TenantB)}

H1 == <<"h", "1">>
H2 == <<"h", "2">>
DB == <<"d", "b">>
USER == <<"u">>
PW1 == <<"p", "w">>
PW2 == <<"s", "e", "c", "r", "e", "t">>

BaseBody ==
  [host |-> Str(H1), port |-> Num(1), databaseName |-> Str(DB),
   username |-> Str(USER), password |-> Undef]

\* bodies that pass validation: the password absent, empty and given, the
\* port as a number and as a numeric string
ValidBodies ==
  {BaseBody,
   [BaseBody EXCEPT !.host = Str(H2), !.port = Str(<<"2">>), !.password = Str(<<>>)],
   [BaseBody EXCEPT !.password = Str(PW1)],
   [BaseBody EXCEPT !.host = Str(H2), !.port = Str(<<"2">>), !.password = Str(PW2)]}

BadStrings == {Undef, Str(<<>>), Num(7)}

\* ports that are not a positive integer or the numeral of one
BadPorts ==
  {Undef, Num(0), Num(-1), Str(<<>>), Str(<<"-", "1">>), Str(<<"0">>),
   Str(<<"a">>), Str(<<"a", "1">>)}

\* strings that are no numeral but begin with one
OddPorts == {Str(<<"1", "a">>), Str(<<" ", "2">>), Str(<<"+", "1">>)}

InvalidBodies ==
  {[BaseBody EXCEPT !.host = v] : v \in BadStrings}
    \cup {[BaseBody EXCEPT !.databaseName = v] : v \in BadStrings}
    \cup {[BaseBody EXCEPT !.username = v] : v \in BadStrings}
    \cup {[BaseBody EXCEPT !.port = v] : v \in BadPorts}
    \cup {[BaseBody EXCEPT !.password = Num(7)]}
    \cup {[BaseBody EXCEPT !.host = Str(<<>>), !.port = Str(<<"a">>)]}

\* the bodies of the validation runs
Bodies ==
  {BaseBody, [BaseBody EXCEPT !.port = Str(<<"2">>)]}
    \cup InvalidBodies \cup {[BaseBody EXCEPT !.port = v] : v \in OddPorts}

\* the POST requests of the store runs: for the first tenant every valid
\* body, one body that fails validation and one whose port makes the
\* transform throw; without a tenant a valid body and the throwing one; the
\* second tenant saves with and without a password
SaveRequests ==
  ({Str(TenantA)}
     \X (ValidBodies \cup {[BaseBody EXCEPT !.username = Str(<<>>)],
                           [BaseBody EXCEPT !.port = Str(<<"a">>)]}))
    \cup ({Undef} \X {BaseBody, [BaseBody EXCEPT !.port = Str(<<"a">>)]})
    \cup ({Str(TenantB)} \X {BaseBody, [BaseBody EXCEPT !.password = Str(PW1)]})

----------------------------------------------------------------------------
(* State *)

VARIABLES
  table,     \* the credentialsZeus table: a bag of rows
  pending,   \* the requests whose handler awaits the persistence layer: a bag
  response,  \* what the step just taken sent to the client, if anything
  \* SettingsPage, the settings form of the web client
  settings,     \* useState: the settings last loaded, or Null
  loading,      \* useState: the page shows the loading placeholder
  activeModal,  \* useState: the integration form that is open, or NoModal
  form,         \* useForm: the values of the form fields
  isSubmitting, \* useForm: handleSubmit is running onSubmit
  fetches,      \* the requests of the page that are not answered yet: a bag
  toast,        \* the notification shown by the step just taken, if any
  settled,      \* the request the step just taken saw answered, if any
  edited        \* history: the Zeus fields hold typed values that were not
                \* submitted from the Zeus form

serverVars == <<table, pending, response>>
clientVars == <<settings, loading, activeModal, form, isSubmitting, fetches,
                toast, settled, edited>>
vars == <<table, pending, response, settings, loading, activeModal, form,
          isSubmitting, fetches, toast, settled, edited>>

NoResponse == [handler |-> "none"]

\* the form values useForm starts with: no defaultValues are given
NoValues ==
  [zeusHost |-> Undef, zeusPort |-> Undef, zeusDatabase |-> Undef,
   zeusUsername |-> Undef, zeusPassword |-> Undef]

\* a request of the page: kind is "load", "save" or "remove"; from is what
\* started it; body holds the members of the JSON sent, Undef where absent
Fetch(kind, from, body) == [kind |-> kind, from |-> from, body |-> body]
NoBody ==
  [openaiApiKey |-> Undef, groqApiKey |-> Undef, zeusHost |-> Undef,
   zeusPort |-> Undef, zeusDatabase |-> Undef, zeusUsername |-> Undef,
   zeusPassword |-> Undef]

\* setActiveModal(null): no form is open
NoModal == "null"

NoneSettled == [kind |-> "none", outcome |-> "none"]

\* the server starts with an empty table; the page has just been mounted:
\* useEffect has called loadSettings, which awaits its GET
Init ==
  /\ table = EmptyBag
  /\ pending = EmptyBag
  /\ response = NoResponse
  /\ settings = Null
  /\ loading = TRUE
  /\ activeModal = NoModal
  /\ form = NoValues
  /\ isSubmitting = FALSE
  /\ fetches = SetToBag({Fetch("load", "mount", NoBody)})
  /\ toast = "none"
  /\ settled = NoneSettled
  /\ edited = FALSE

Respond(handler, tenantId, body, status, json) ==
  response' = [handler |-> handler, tenantId |-> tenantId, body |-> body,
               status |-> status, json |-> json]

\* the handler reaches its await: nothing is sent yet
Await(handler, tenantId, body) ==
  /\ BagCardinality(pending) < MaxInFlight
  /\ pending' = pending (+) SetToBag({[handler |-> handler, tenantId |-> tenantId,
                                       body |-> body]})
  /\ response' = NoResponse
  /\ UNCHANGED table

Resume(op) == pending' = pending (-) SetToBag({op})

TenantMissing == [success |-> FALSE, message |-> "Tenant nao identificado"]
InternalError == [success |-> FALSE, message |-> "Erro interno do servidor"]

----------------------------------------------------------------------------
(* ZeusController: each handler runs to its await, and resumes when the    *)
(* persistence layer answers or fails                                      *)

GetCredentialsRequest(tenantId) ==
  IF ~Truthy(tenantId)
    THEN /\ Respond("GET", tenantId, Undef, 400, TenantMissing)
         /\ UNCHANGED <<table, pending>>
    ELSE Await("GET", tenantId, Undef)

GetCredentialsResume(op) ==
  /\ op \in BagToSet(pending) /\ op.handler = "GET"
  /\ Resume(op)
  /\ Respond("GET", op.tenantId, op.body, 200,
             [success |-> TRUE, data |-> getCredentials(table, op.tenantId.s)])
  /\ UNCHANGED table

\* the body validated before the tenant is looked at
SaveCredentialsRequest_ValidatesFirst(tenantId, body) ==
  LET validation == safeParse(body)
  IN  IF validation.threw
        THEN /\ Respond("POST", tenantId, body, 500, InternalError)
             /\ UNCHANGED <<table, pending>>
      ELSE IF ~validation.success
        THEN /\ Respond("POST", tenantId, body, 400,
                        [success |-> FALSE, message |-> "Dados invalidos",
                         errors |-> validation.errors])
             /\ UNCHANGED <<table, pending>>
      ELSE IF ~Truthy(tenantId)
        THEN /\ Respond("POST", tenantId, body, 400, TenantMissing)
             /\ UNCHANGED <<table, pending>>
      ELSE Await("POST", tenantId, body)

SaveCredentialsRequest(tenantId, body) ==
  IF ~Truthy(tenantId)
    THEN /\ Respond("POST", tenantId, body, 400, TenantMissing)
         /\ UNCHANGED <<table, pending>>
  ELSE LET validation == safeParse(body)
       IN  IF validation.threw
             THEN /\ Respond("POST", tenantId, body, 500, InternalError)
                  /\ UNCHANGED <<table, pending>>
           ELSE IF ~validation.success
             THEN /\ Respond("POST", tenantId, body, 400,
                             [success |-> FALSE, message |-> "Dados invalidos",
                              errors |-> validation.errors])
                  /\ UNCHANGED <<table, pending>>
           ELSE Await("POST", tenantId, body)

SaveCredentialsResume(op) ==
  /\ op \in BagToSet(pending) /\ op.handler = "POST"
  /\ Resume(op)
  /\ LET saved == upsertCredentials(table, op.tenantId.s, safeParse(op.body).data)
     IN  /\ table' = saved.table
         /\ Respond("POST", op.tenantId, op.body, 200,
                    [success |-> TRUE, message |-> "Credenciais salvas com sucesso",
                     data |-> saved.result])

DeleteCredentialsRequest(tenantId) ==
  IF ~Truthy(tenantId)
    THEN /\ Respond("DELETE", tenantId, Undef, 400, TenantMissing)
         /\ UNCHANGED <<table, pending>>
    ELSE Await("DELETE", tenantId, Undef)

DeleteCredentialsResume(op) ==
  /\ op \in BagToSet(pending) /\ op.handler = "DELETE"
  /\ Resume(op)
  /\ table' = deleteCredentials(table, op.tenantId.s)
  /\ Respond("DELETE", op.tenantId, op.body, 200,
             [success |-> TRUE, message |-> "Credenciais removidas com sucesso"])

\* the awaited call rejects: the catch block of the handler answers
PersistenceFailure(op) ==
  /\ op \in BagToSet(pending)
  /\ Resume(op)
  /\ Respond(op.handler, op.tenantId, op.body, 500, InternalError)
  /\ UNCHANGED table

Next ==
  \/ (\E t \in TenantIds : GetCredentialsRequest(t)) /\ UNCHANGED clientVars
  \/ (\E r \in SaveRequests : SaveCredentialsRequest(r[1], r[2])) /\ UNCHANGED clientVars
  \/ (\E t \in TenantIds : DeleteCredentialsRequest(t)) /\ UNCHANGED clientVars
  \/ (\E op \in BagToSet(pending) : GetCredentialsResume(op)) /\ UNCHANGED clientVars
  \/ (\E op \in BagToSet(pending) : SaveCredentialsResume(op)) /\ UNCHANGED clientVars
  \/ (\E op \in BagToSet(pending) : DeleteCredentialsResume(op)) /\ UNCHANGED clientVars
  \/ (\E op \in BagToSet(pending) : PersistenceFailure(op)) /\ UNCHANGED clientVars

Spec == Init /\ [][Next]_vars

\* the same handlers, one tenant, many request bodies
NextValidation ==
  \/ (\E t \in {Undef, Str(TenantA)} : GetCredentialsRequest(t)) /\ UNCHANGED clientVars
  \/ (\E t \in {Undef, Str(TenantA)}, b \in Bodies : SaveCredentialsRequest(t, b)) /\ UNCHANGED clientVars
  \/ (\E t \in {Undef, Str(TenantA)} : DeleteCredentialsRequest(t)) /\ UNCHANGED clientVars
  \/ (\E op \in BagToSet(pending) : GetCredentialsResume(op)) /\ UNCHANGED clientVars
  \/ (\E op \in BagToSet(pending) : SaveCredentialsResume(op)) /\ UNCHANGED clientVars
  \/ (\E op \in BagToSet(pending) : DeleteCredentialsResume(op)) /\ UNCHANGED clientVars
  \/ (\E op \in BagToSet(pending) : PersistenceFailure(op)) /\ UNCHANGED clientVars

SpecValidation == Init /\ [][NextValidation]_vars

----------------------------------------------------------------------------
(* SettingsPage: the web client's settings form.  It talks to /api/settings *)
(* and holds one form (useForm) shared by the OpenAI, Groq and Zeus modals. *)
(* The WAHA and Evolution fields are handled like zeusHost and are left     *)
(* out.  An answer of the server is an input of the step that receives it.  *)

MaxPort == 65535

Modals == {"openai", "groq", "zeus"}
ZeusFields == {"zeusHost", "zeusPort", "zeusDatabase", "zeusUsername", "zeusPassword"}

\* Number(v), the coercion of z.coerce.number()
RECURSIVE AllDigits(_)
AllDigits(s) == s = <<>> \/ (IsDigit(Head(s)) /\ AllDigits(Tail(s)))

ToNumber(v) ==
  CASE IsStr(v) -> IF AllDigits(v.s) THEN Num(ReadDigits(v.s, 0, 0).value) ELSE NaN
    [] v.t = "number" -> v
    [] v = Null -> Num(0)
    [] OTHER -> NaN

\* z.string().optional()
OptionalString(v) == v = Undef \/ IsStr(v)

\* z.coerce.number().min(1).max(65535).optional(): the parsed value, or
\* "invalid"
CoercedPort(v) ==
  IF v = Undef THEN Undef
  ELSE LET n == ToNumber(v)
       IN  IF IsNum(n) /\ n.n >= 1 /\ n.n <= MaxPort THEN n ELSE NaN

\* zodResolver(settingsSchema): the parsed data holds the keys of the schema
\* only, so the API keys typed in the OpenAI and Groq forms are stripped
settingsSchema(values) ==
  LET port == CoercedPort(values.zeusPort)
      ok == /\ OptionalString(values.zeusHost)
            /\ OptionalString(values.zeusDatabase)
            /\ OptionalString(values.zeusUsername)
            /\ OptionalString(values.zeusPassword)
            /\ ~IsNaN(port)
  IN  IF ok THEN [success |-> TRUE, data |-> [values EXCEPT !.zeusPort = port]]
      ELSE [success |-> FALSE]

\* data.x || ''
OrEmpty(v) == IF Truthy(v) THEN v ELSE Str(<<>>)

\* the setValue calls of loadSettings
LoadedValues(data) ==
  [zeusHost |-> OrEmpty(data.zeusHost), zeusPort |-> OrEmpty(data.zeusPort),
   zeusDatabase |-> OrEmpty(data.zeusDatabase),
   zeusUsername |-> OrEmpty(data.zeusUsername),
   zeusPassword |-> OrEmpty(data.zeusPassword)]

\* register: an input that mounts on a field without a value gives the field
\* the value of the empty input, which valueAsNumber reads as NaN
Registered(values) ==
  [f \in ZeusFields |->
     IF values[f] # Undef THEN values[f]
     ELSE IF f = "zeusPort" THEN NaN ELSE Str(<<>>)]

\* the body of the PUT of onSubmit
SaveBody(data) ==
  [openaiApiKey |-> Undef, groqApiKey |-> Undef, zeusHost |-> data.zeusHost,
   zeusPort |-> data.zeusPort, zeusDatabase |-> data.zeusDatabase,
   zeusUsername |-> data.zeusUsername, zeusPassword |-> data.zeusPassword]

\* the body of the PUT of removeIntegration
RemoveBody(type) ==
  CASE type = "openai" -> [NoBody EXCEPT !.openaiApiKey = Str(<<>>)]
    [] type = "groq" -> [NoBody EXCEPT !.groqApiKey = Str(<<>>)]
    [] type = "zeus" -> [NoBody EXCEPT !.zeusHost = Str(<<>>),
                                       !.zeusDatabase = Str(<<>>),
                                       !.zeusUsername = Str(<<>>),
                                       !.zeusPassword = Str(<<>>)]

\* the Remover button of a form is rendered when its integration is configured
Configured(type) ==
  /\ settings # Null
  /\ Truthy(CASE type = "openai" -> settings.openaiApiKey
              [] type = "groq" -> settings.groqApiKey
              [] type = "zeus" -> settings.zeusHost)

\* what GET /api/settings may answer
KEY == <<"k">>
SECRET == <<"s">>
NotConfigured == NoBody
ConfiguredData ==
  [openaiApiKey |-> Str(KEY), groqApiKey |-> Str(KEY), zeusHost |-> Str(H1),
   zeusPort |-> Num(1), zeusDatabase |-> Str(DB), zeusUsername |-> Str(USER),
   zeusPassword |-> Undef]
ConfiguredWithPassword == [ConfiguredData EXCEPT !.zeusPassword = Str(SECRET)]
LoadData == {NotConfigured, ConfiguredData, ConfiguredWithPassword}

\* what the user may type into the fields of the Zeus form
TypedValues ==
  {<<"zeusHost", Str(H2)>>, <<"zeusPassword", Str(PW1)>>, <<"zeusPort", Num(2)>>}

Outcomes == {"ok", "notok", "throw"}

\* loadSettings runs up to its await of the GET
StartLoad(from, others) ==
  fetches' = others (+) SetToBag({Fetch("load", from, NoBody)})

HasRoom == BagCardinality(fetches) < MaxInFlight

\* the 'superadmin-tenant-changed' event: its listener calls loadSettings
TenantChanged ==
  /\ HasRoom
  /\ StartLoad("event", fetches)
  /\ toast' = "none" /\ settled' = NoneSettled
  /\ UNCHANGED <<settings, loading, activeModal, form, isSubmitting, edited>>

\* loadSettings resumes: the GET is answered with data (ok), is answered
\* with an error status (notok), or the fetch or its JSON fails (throw); a
\* load awaited by onSubmit ends the run of handleSubmit
SettleLoad(r, outcome, data) ==
  /\ r \in BagToSet(fetches) /\ r.kind = "load"
  /\ fetches' = fetches (-) SetToBag({r})
  /\ IF outcome = "ok"
       THEN /\ settings' = data
            /\ form' = LoadedValues(data)
            /\ edited' = FALSE
       ELSE UNCHANGED <<settings, form, edited>>
  /\ toast' = IF outcome = "throw" THEN "error" ELSE "none"
  /\ loading' = FALSE
  /\ isSubmitting' = IF r.from = "save" THEN FALSE ELSE isSubmitting
  /\ settled' = [kind |-> "load", outcome |-> outcome]
  /\ UNCHANGED activeModal

\* a Configurar button: the page is rendered and no modal covers it
OpenModal(m) ==
  /\ ~loading /\ activeModal = NoModal
  /\ activeModal' = m
  /\ form' = IF m = "zeus" THEN Registered(form) ELSE form
  /\ toast' = "none" /\ settled' = NoneSettled
  /\ UNCHANGED <<settings, loading, isSubmitting, fetches, edited>>

\* the Cancelar and X buttons of a modal: setActiveModal(null)
CloseModal ==
  /\ ~loading /\ activeModal # NoModal
  /\ activeModal' = NoModal
  /\ toast' = "none" /\ settled' = NoneSettled
  /\ UNCHANGED <<settings, loading, form, isSubmitting, fetches, edited>>

\* the user changes a field of the Zeus form
TypeInto(field, value) ==
  /\ ~loading /\ activeModal = "zeus"
  /\ form' = [form EXCEPT ![field] = value]
  /\ edited' = TRUE
  /\ toast' = "none" /\ settled' = NoneSettled
  /\ UNCHANGED <<settings, loading, activeModal, isSubmitting, fetches>>

\* the Salvar button of the open form: handleSubmit validates the values of
\* the whole form and, when they are valid, runs onSubmit up to its await
\* of the PUT
Submit_WhileSubmitting ==
  /\ ~loading /\ activeModal # NoModal
  /\ HasRoom
  /\ LET parsed == settingsSchema(form)
     IN  IF parsed.success
           THEN /\ isSubmitting' = TRUE
                /\ fetches' = fetches (+)
                     SetToBag({Fetch("save", activeModal, SaveBody(parsed.data))})
                /\ edited' = IF activeModal = "zeus" THEN FALSE ELSE edited
           ELSE UNCHANGED <<isSubmitting, fetches, edited>>
  /\ toast' = "none" /\ settled' = NoneSettled
  /\ UNCHANGED <<settings, loading, activeModal, form>>

Submit ==
  /\ ~loading /\ activeModal # NoModal /\ ~isSubmitting
  /\ HasRoom
  /\ LET parsed == settingsSchema(form)
     IN  IF parsed.success
           THEN /\ isSubmitting' = TRUE
                /\ fetches' = fetches (+)
                     SetToBag({Fetch("save", activeModal, SaveBody(parsed.data))})
                /\ edited' = IF activeModal = "zeus" THEN FALSE ELSE edited
           ELSE UNCHANGED <<isSubmitting, fetches, edited>>
  /\ toast' = "none" /\ settled' = NoneSettled
  /\ UNCHANGED <<settings, loading, activeModal, form>>

\* onSubmit resumes: on success it closes the modal and awaits loadSettings;
\* on an error status or an exception it notifies and handleSubmit ends
SettleSave(r, outcome) ==
  /\ r \in BagToSet(fetches) /\ r.kind = "save"
  /\ IF outcome = "ok"
       THEN /\ toast' = "success"
            /\ activeModal' = NoModal
            /\ StartLoad("save", fetches (-) SetToBag({r}))
            /\ UNCHANGED isSubmitting
       ELSE /\ toast' = "error"
            /\ fetches' = fetches (-) SetToBag({r})
            /\ isSubmitting' = FALSE
            /\ UNCHANGED activeModal
  /\ settled' = [kind |-> "save", outcome |-> outcome]
  /\ UNCHANGED <<settings, loading, form, edited>>

\* the Remover button of the open form: removeIntegration asks for
\* confirmation and runs up to its await of the PUT
Remove(type, confirmed) ==
  /\ ~loading /\ activeModal = type /\ ~isSubmitting /\ Configured(type)
  /\ HasRoom
  /\ IF confirmed
       THEN fetches' = fetches (+) SetToBag({Fetch("remove", type, RemoveBody(type))})
       ELSE UNCHANGED fetches
  /\ toast' = "none" /\ settled' = NoneSettled
  /\ UNCHANGED <<settings, loading, activeModal, form, isSubmitting, edited>>

\* removeIntegration resumes
SettleRemove(r, outcome) ==
  /\ r \in BagToSet(fetches) /\ r.kind = "remove"
  /\ IF outcome = "ok"
       THEN /\ toast' = "success"
            /\ activeModal' = NoModal
            /\ StartLoad("remove", fetches (-) SetToBag({r}))
       ELSE /\ toast' = "error"
            /\ fetches' = fetches (-) SetToBag({r})
            /\ UNCHANGED activeModal
  /\ settled' = [kind |-> "remove", outcome |-> outcome]
  /\ UNCHANGED <<settings, loading, form, isSubmitting, edited>>

\* the requests the page can have in flight, for the fairness of the network
RequestValues ==
  LET loaded == {NoValues} \cup {LoadedValues(d) : d \in LoadData}
      shown == loaded \cup {Registered(v) : v \in loaded}
  IN  {settingsSchema(v).data : v \in {w \in shown : settingsSchema(w).success}}
Requests ==
  {Fetch("load", from, NoBody) : from \in {"mount", "event", "save", "remove"}}
    \cup {Fetch("save", m, SaveBody(d)) : m \in Modals, d \in RequestValues}
    \cup {Fetch("remove", type, RemoveBody(type)) : type \in Modals}

\* the network answers the request r
Settle(r) ==
  \/ \E o \in Outcomes, d \in LoadData : SettleLoad(r, o, d)
  \/ \E o \in Outcomes : SettleSave(r, o)
  \/ \E o \in Outcomes : SettleRemove(r, o)

\* the page over its whole life, its fields as they were loaded; every
\* request is answered at some time
NextClient ==
  \/ TenantChanged /\ UNCHANGED serverVars
  \/ (\E m \in Modals : OpenModal(m)) /\ UNCHANGED serverVars
  \/ CloseModal /\ UNCHANGED serverVars
  \/ Submit /\ UNCHANGED serverVars
  \/ (\E type \in Modals, c \in BOOLEAN : Remove(type, c)) /\ UNCHANGED serverVars
  \/ (\E r \in BagToSet(fetches), o \in Outcomes, d \in LoadData :
        SettleLoad(r, o, d)) /\ UNCHANGED serverVars
  \/ (\E r \in BagToSet(fetches), o \in Outcomes : SettleSave(r, o))
        /\ UNCHANGED serverVars
  \/ (\E r \in BagToSet(fetches), o \in Outcomes : SettleRemove(r, o))
        /\ UNCHANGED serverVars

SpecClient ==
  /\ Init /\ [][NextClient]_vars
  /\ \A r \in Requests : WF_vars(Settle(r) /\ UNCHANGED serverVars)

\* the form while the user edits it: no tenant change and no removal
NextForm ==
  \/ (\E m \in Modals : OpenModal(m)) /\ UNCHANGED serverVars
  \/ CloseModal /\ UNCHANGED serverVars
  \/ (\E tv \in TypedValues : TypeInto(tv[1], tv[2])) /\ UNCHANGED serverVars
  \/ Submit /\ UNCHANGED serverVars
  \/ (\E r \in BagToSet(fetches), o \in Outcomes, d \in LoadData :
        SettleLoad(r, o, d)) /\ UNCHANGED serverVars
  \/ (\E r \in BagToSet(fetches), o \in Outcomes : SettleSave(r, o))
        /\ UNCHANGED serverVars

SpecForm == Init /\ [][NextForm]_vars

----------------------------------------------------------------------------
(* Properties *)

NumRows(tbl, tenantId) ==
  BagCardinality([r \in RowsOf(tbl, tenantId) |-> tbl[r]])

\* the request carries a password that is a non-empty string
GivesPassword(body) == IsStr(body.password) /\ Len(body.password.s) > 0

Sent(r, handler, status) == r.handler = handler /\ r.status = status

\* the response r is the 200 of `handler` to a request of tenant t
Ok(r, handler, t) == Sent(r, handler, 200) /\ r.tenantId = Str(t)

\* C1: in every state of the table, getCredentials of a tenant without a row
\* is null, and of a tenant with a row is that row without its password
\* field plus hasPassword, true exactly when the stored password is not
\* empty; the 200 of GET carries that value, and no field of it is the
\* stored password
C1_ReadIsRedacted ==
  /\ \A t \in Tenants :
       LET got == getCredentials(table, t)
       IN  IF RowsOf(table, t) = {} THEN got = Null
           ELSE \E row \in RowsOf(table, t) :
                  /\ DOMAIN got = (DOMAIN row \ {"password"}) \cup {"hasPassword"}
                  /\ \A k \in DOMAIN row \ {"password"} : got[k] = row[k]
                  /\ got.hasPassword = (row.password # <<>>)
  /\ \A t \in Tenants :
       Ok(response, "GET", t) =>
         /\ DOMAIN response.json = {"success", "data"}
         /\ response.json.success
         /\ response.json.data = getCredentials(table, t)
         /\ \A row \in RowsOf(table, t) :
              /\ "password" \notin DOMAIN response.json.data
              /\ row.password # <<>> =>
                   \A k \in {"host", "databaseName", "username", "tenantId"} :
                     response.json.data[k] # row.password

\* a GET answered with the redacted row of a tenant whose password is stored
C1_Witness ==
  /\ Ok(response, "GET", TenantA)
  /\ response.json.data # Null
  /\ response.json.data.hasPassword
  /\ \E row \in RowsOf(table, TenantA) : row.password = PW2

\* C2: no response of any handler (GET, POST, DELETE) carries a credential
\* object that still holds a stored password
C2_NoPasswordLeavesTheServer ==
  (response.handler # "none" /\ "data" \in DOMAIN response.json
     /\ response.json.data # Null /\ "password" \in DOMAIN response.json.data)
    => response.json.data.password = <<>>

\* C3: an upsert without a password (absent or empty) on a tenant whose row
\* holds a non-empty password keeps that password, gives the row the other
\* fields of the request, and the read that follows reports hasPassword; the
\* password of a row changes only in the step of an upsert that carries a
\* non-empty password, and changes to it
C3_PasswordPreserved ==
  [][\A t \in Tenants :
       LET old == findUnique(table, t)
           new == findUnique(table', t)
       IN  (old # Null /\ old.password # <<>>) =>
             /\ (Ok(response', "POST", t) /\ ~GivesPassword(response'.body)) =>
                   /\ new # Null
                   /\ new.password = old.password
                   /\ new.host = response'.body.host.s
                   /\ new.port = safeParse(response'.body).data.port
                   /\ new.databaseName = response'.body.databaseName.s
                   /\ new.username = response'.body.username.s
                   /\ getCredentials(table', t).hasPassword
             /\ (new # Null /\ new.password # old.password) =>
                   /\ Ok(response', "POST", t)
                   /\ GivesPassword(response'.body)
                   /\ new.password = response'.body.password.s]_vars

\* an upsert without a password has just changed the host of a row whose
\* password was saved before
C3_Witness ==
  /\ Ok(response, "POST", TenantA)
  /\ response.body.password = Str(<<>>)
  /\ \E row \in RowsOf(table, TenantA) : row.password = PW1 /\ row.host = H2

\* C4: every tenant has at most one row, in every state and under every
\* interleaving of the requests in flight; a successful upsert leaves the
\* tenant with exactly one row, adding a row only when the tenant had none
C4_OneRowPerTenant ==
  /\ [](\A t \in Tenants : NumRows(table, t) <= 1)
  /\ [][\A t \in Tenants :
          Ok(response', "POST", t) =>
            /\ NumRows(table', t) = 1
            /\ BagCardinality(table') =
                 BagCardinality(table) + (IF NumRows(table, t) = 0 THEN 1 ELSE 0)]_vars

\* a second upsert of a tenant was answered while a request of the other
\* tenant was in flight, and each tenant has its one row
C4_Witness ==
  /\ Ok(response, "POST", TenantA)
  /\ \E row \in RowsOf(table, TenantA) : row.password = PW1 /\ row.host = H2
  /\ NumRows(table, TenantA) = 1
  /\ NumRows(table, TenantB) = 1
  /\ BagCardinality(pending) > 0

PersistenceFailed == \E op \in BagToSet(pending) : PersistenceFailure(op)

\* C5: a DELETE of a resolved tenant whose persistence call does not fail is
\* answered 200 with success true, whether or not the tenant had a row, and
\* leaves the tenant without a row; a tenant without a row gets one only in
\* the step of a successful upsert, and a read of a tenant without a row
\* returns null
C5_DeleteIsIdempotent ==
  [][\A t \in Tenants :
       /\ (response'.handler = "DELETE" /\ response'.tenantId = Str(t)
             /\ ~PersistenceFailed) =>
            /\ response'.status = 200
            /\ response'.json.success
            /\ "errors" \notin DOMAIN response'.json
            /\ RowsOf(table', t) = {}
            /\ getCredentials(table', t) = Null
       /\ (RowsOf(table, t) = {} /\ RowsOf(table', t) # {}) => Ok(response', "POST", t)
       /\ (RowsOf(table, t) = {} /\ Ok(response', "GET", t)) =>
            response'.json.data = Null]_vars

\* a DELETE answered 200 for a tenant that had no row left, the other
\* tenant keeping its row
C5_Witness ==
  /\ Ok(response, "DELETE", TenantA)
  /\ RowsOf(table, TenantA) = {}
  /\ RowsOf(table, TenantB) # {}

HasPortError(json) ==
  /\ "errors" \in DOMAIN json
  /\ \E i \in DOMAIN json.errors : json.errors[i].path = "port"

\* C6: a POST of a resolved tenant, its other fields valid, whose port is a
\* positive integer or the numeral of one is stored with that integer, and
\* one whose port is not (BadPorts) is answered 400 with an error for the
\* field port
C6_PortCoercedOrRejected ==
  (response.handler = "POST" /\ Truthy(response.tenantId)
     /\ \A k \in {"host", "databaseName", "username"} :
          response.body[k] \notin BadStrings) =>
    /\ response.body.port \in BadPorts =>
         (response.status = 400 /\ HasPortError(response.json))
    /\ response.status = 200 =>
         /\ response.body.port \notin BadPorts
         /\ response.body.port = Num(1) => response.json.data.port = 1
         /\ response.body.port = Str(<<"2">>) => response.json.data.port = 2
         /\ \E row \in RowsOf(table, response.tenantId.s) :
              row.port = response.json.data.port

\* C7: a POST of a resolved tenant whose host, databaseName or username is
\* missing, not a string or empty is answered 400 with success false and a
\* list of errors
C7_RequiredFieldRejected ==
  (response.handler = "POST" /\ Truthy(response.tenantId)
     /\ (\/ response.body.host \in BadStrings
         \/ response.body.databaseName \in BadStrings
         \/ response.body.username \in BadStrings)) =>
    /\ response.status = 400
    /\ ~response.json.success
    /\ "errors" \in DOMAIN response.json
    /\ response.json.errors # <<>>

NoTenant == {t \in TenantIds : ~Truthy(t)}

\* C8: a GET, POST or DELETE without a resolved tenant is answered 400 with
\* success false, whatever the body of the POST, and touches neither the
\* table nor the persistence layer; no request awaiting the persistence
\* layer is without a tenant
C8_NoTenantNoPersistence ==
  /\ [](\A op \in BagToSet(pending) : Truthy(op.tenantId))
  /\ [][\A t \in NoTenant :
          (\/ GetCredentialsRequest(t)
           \/ DeleteCredentialsRequest(t)
           \/ \E r \in SaveRequests : r[1] = t /\ SaveCredentialsRequest(t, r[2]))
            => (response'.handler # "none" /\ response'.tenantId = t)]_vars
  /\ [][(response'.handler # "none" /\ ~Truthy(response'.tenantId)) =>
          /\ response'.status = 400
          /\ response'.json = TenantMissing
          /\ table' = table
          /\ pending' = pending]_vars

\* a POST without a tenant, with a port that validation would not survive,
\* answered 400 while another request awaits the persistence layer
C8_Witness ==
  /\ Sent(response, "POST", 400)
  /\ response.tenantId = Undef
  /\ response.body.port = Str(<<"a">>)
  /\ response.json = TenantMissing
  /\ BagCardinality(pending) > 0

\* C9: a 500 carries the fixed generic body and nothing else, and a POST is
\* answered 500 only when its body was valid (the failure is internal)
C9_InternalErrorIsGenericAndInternal ==
  (response.handler # "none" /\ response.status = 500) =>
    /\ response.json = InternalError
    /\ response.handler = "POST" => response.body \in ValidBodies

\* C10: an upsert on a tenant without a row creates the row with the
\* password of the request, the empty string when the request gives none or
\* an empty one, and the read that follows reports hasPassword accordingly
C10_CreateDefaultsPassword ==
  [][\A t \in Tenants :
       (Ok(response', "POST", t) /\ RowsOf(table, t) = {}) =>
         LET new == findUnique(table', t)
         IN  /\ new # Null
             /\ new.password = (IF GivesPassword(response'.body)
                                  THEN response'.body.password.s ELSE <<>>)
             /\ getCredentials(table', t) # Null
             /\ getCredentials(table', t).hasPassword = GivesPassword(response'.body)]_vars

\* the second tenant's row was created by an upsert without a password, and
\* the first tenant's by one with a password
C10_Witness ==
  /\ Ok(response, "POST", TenantB)
  /\ response.body.password = Undef
  /\ \E row \in RowsOf(table, TenantB) : row.password = <<>>
  /\ ~getCredentials(table, TenantB).hasPassword
  /\ \E row \in RowsOf(table, TenantA) : row.password = PW2 /\ row.host = H2

\* the integer a port of the valid bodies stands for
PortValue(port) == IF port = Str(<<"2">>) THEN 2 ELSE port.n

\* C11: after a POST answered 200, a read of the tenant gives the host, port,
\* databaseName and username of the request, no password, and hasPassword
\* true exactly when the stored password is not empty (the one given, or
\* else the one kept); a GET answers with that read; after a DELETE answered
\* 200 the read is null
C11_SaveReadDelete ==
  [][\A t \in Tenants :
       LET old == findUnique(table, t)
           got == getCredentials(table', t)
       IN  /\ Ok(response', "POST", t) =>
                /\ got # Null
                /\ DOMAIN got = {"host", "port", "databaseName", "username",
                                 "tenantId", "hasPassword"}
                /\ got.host = response'.body.host.s
                /\ got.port = PortValue(response'.body.port)
                /\ got.databaseName = response'.body.databaseName.s
                /\ got.username = response'.body.username.s
                /\ got.hasPassword =
                     (\/ GivesPassword(response'.body)
                      \/ (old # Null /\ old.password # <<>>))
           /\ Ok(response', "GET", t) =>
                (table' = table /\ response'.json.data = got)
           /\ Ok(response', "DELETE", t) => got = Null]_vars

\* a GET answered with what the second body saved, its port given as "2"
C11_Witness ==
  /\ Ok(response, "GET", TenantA)
  /\ response.json.data =
       [host |-> H2, port |-> 2, databaseName |-> DB, username |-> USER,
        tenantId |-> TenantA, hasPassword |-> TRUE]

\* the rows of a tenant, with their numbers of copies
TenantRows(tbl, t) == [r \in RowsOf(tbl, t) |-> tbl[r]]

\* C17: a step taken for one tenant (or for none) leaves the rows of every
\* other tenant as they were; a GET of a tenant returns null or that
\* tenant's row, whatever the other tenants hold; and the row an upsert
\* leaves depends on the request and on that tenant's row alone
C17_TenantIsolation ==
  [][\A t \in Tenants :
       LET old == findUnique(table, t)
       IN  /\ (response'.handler = "none" \/ response'.tenantId # Str(t)) =>
                TenantRows(table', t) = TenantRows(table, t)
           /\ Ok(response', "GET", t) =>
                /\ (response'.json.data = Null) = (old = Null)
                /\ old # Null =>
                     /\ response'.json.data.tenantId = t
                     /\ response'.json.data.host = old.host
           /\ Ok(response', "DELETE", t) => RowsOf(table', t) = {}
           /\ Ok(response', "POST", t) =>
                TenantRows(table', t) = SetToBag({
                  [tenantId |-> t,
                   host |-> response'.body.host.s,
                   port |-> PortValue(response'.body.port),
                   databaseName |-> response'.body.databaseName.s,
                   username |-> response'.body.username.s,
                   password |-> IF GivesPassword(response'.body)
                                  THEN response'.body.password.s
                                ELSE IF old = Null THEN <<>> ELSE old.password]})]_vars

\* the first tenant's DELETE answered while the second tenant keeps the row
\* it saved, and a request of the second tenant is in flight
C17_Witness ==
  /\ Ok(response, "DELETE", TenantA)
  /\ RowsOf(table, TenantA) = {}
  /\ \E row \in RowsOf(table, TenantB) : row.password = PW1
  /\ \E op \in BagToSet(pending) : op.tenantId = Str(TenantB)

\* C18: a row whose password is not empty keeps a non-empty password, and
\* the read reports hasPassword, through every step but the DELETE of its
\* tenant answered 200: no upsert empties it
C18_PasswordOnlyClearedByDelete ==
  [][\A t \in Tenants :
       LET old == findUnique(table, t)
           new == findUnique(table', t)
       IN  (old # Null /\ old.password # <<>> /\ ~Ok(response', "DELETE", t)) =>
             /\ new # Null
             /\ new.password # <<>>
             /\ getCredentials(table', t).hasPassword]_vars

\* an upsert with the empty string for password answered 200 on a row that
\* holds the second password
C18_Witness ==
  /\ Ok(response, "POST", TenantA)
  /\ response.body.password = Str(<<>>)
  /\ \E row \in RowsOf(table, TenantA) : row.password = PW2

----------------------------------------------------------------------------
(* Properties of SettingsPage *)

\* the state of the form controller, as the page shows it
Phase ==
  IF loading THEN "loading" ELSE IF isSubmitting THEN "submitting" ELSE "idle"

InFlight(kinds) == {r \in BagToSet(fetches) : r.kind \in kinds}

\* C12: the controller is in loading from mount until the first load is
\* answered, whatever the answer; it is in submitting while a save or a
\* remove is in flight, and idle again once that request is answered
C12_ControllerStates ==
  /\ Phase = "loading" => InFlight({"load"}) # {}
  /\ settled.kind = "load" => Phase # "loading"
  /\ InFlight({"save", "remove"}) # {} => Phase = "submitting"
  /\ settled.kind \in {"save", "remove"} => Phase = "idle"

\* under fair answers of the network the controller does not stay in loading
\* or in submitting forever
EventuallyIdle == (Phase # "idle") ~> (Phase = "idle")

\* C13: after a load that was answered with settings, the host, port,
\* database and username fields hold the loaded values when a record exists,
\* and the password field is the empty string whatever the answer contains
C13_LoadPrefillsAllButPassword ==
  (settled.kind = "load" /\ settled.outcome = "ok") =>
    /\ Truthy(settings.zeusHost) =>
          /\ form.zeusHost = settings.zeusHost
          /\ form.zeusPort = settings.zeusPort
          /\ form.zeusDatabase = settings.zeusDatabase
          /\ form.zeusUsername = settings.zeusUsername
    /\ form.zeusPassword = Str(<<>>)

\* C14: closing the Zeus form sends no request, and a save sent from the
\* form of another integration never carries values that were typed into the
\* Zeus form and not submitted from it
C14_CancelDiscardsEdits ==
  /\ [][(activeModal = "zeus" /\ activeModal' = NoModal /\ settled' = NoneSettled)
          => fetches' = fetches]_vars
  /\ [][(~isSubmitting /\ isSubmitting' /\ activeModal # "zeus") => ~edited]_vars

\* C15: at most one request of the page is outstanding at any time
C15_OneRequestAtATime == BagCardinality(fetches) <= 1

\* the number of outstanding requests of the given kinds and origins
Outstanding(kinds, froms) ==
  BagCardinality([r \in {x \in BagToSet(fetches) : x.kind \in kinds /\ x.from \in froms}
                    |-> fetches[r]])
OutstandingNext(kinds, froms) ==
  BagCardinality([r \in {x \in BagToSet(fetches') : x.kind \in kinds /\ x.from \in froms}
                    |-> fetches'[r]])

\* C15: at most one save, or the reload it awaits, is outstanding, and
\* that is when the form is submitting; a step starts at most one request;
\* a save or a remove starts only while the page is rendered and no save is
\* submitting
C15_OneSaveAtATime ==
  /\ [](Outstanding({"save"}, Modals) + Outstanding({"load"}, {"save"})
          = IF isSubmitting THEN 1 ELSE 0)
  /\ [][BagCardinality(fetches') <= BagCardinality(fetches) + 1]_vars
  /\ [][OutstandingNext({"save", "remove"}, Modals)
            > Outstanding({"save", "remove"}, Modals)
          => (~isSubmitting /\ ~loading)]_vars

C15_Witness ==
  /\ isSubmitting
  /\ Outstanding({"save"}, Modals) = 1
  /\ Outstanding({"load"}, {"event"}) = 1

\* C16: a step that sees a request fail, by an error status or by an
\* exception, shows one error notification, and no other step shows one
C16_EveryFailureNotifiedOnce ==
  (settled.outcome \in {"notok", "throw"}) <=> (toast = "error")
====
